---- MODULE Spec2Model ----
(***************************************************************************)
(* Median-cut colour quantizer (MMCQ) of src/src/lib.rs as a state machine. *)
(* One MMCQ object is built from a pixel buffer (histogram, root box, the   *)
(* split loop, averaging, the final sort) and then used to quantize pixel   *)
(* sequences.  Indices into image_colors are the code's 0-based indices;    *)
(* TLA+ sequences are 1-based, so node i of the code is image_colors[i+1].  *)
(***************************************************************************)
EXTENDS Integers, Sequences, FiniteSets, TLC

\* ---------------------------------------------------------------- bounds
MaxPixels == 4
MaxK == 3
MaxQuantLen == 2
MaxBytes == 8
MaxDeepCnt == 2
MaxDeepK == 5

\* Packed 32-bit pixels the callers pass to from_pixels_u32_rgba:
\* 0x0000FF, 0x00FF00, 0xFF0000, 0x7F0000FF (0x0000FF with alpha bits),
\* 0x01402010 (alpha bits, three different channels).
Colors == {255, 65280, 16711680, 2130706687, 20979728}

\* Packed pixels the callers pass to quantize_image:
\* 0xFF0000, 0x0000FF, 0x01808080.
QuantColors == {16711680, 255, 25264256}

\* The values `NaN as u8` may take (get_average_color with n = 0): 0 where
\* the cast saturates, anything where the cast is undefined behaviour.
NaNAsU8 == {0, 255}

\* Bytes of the buffers the callers pass to from_pixels_u8_rgba: 0x00, 0x7F.
ByteValues == {0, 127}

\* Seven colours of an image with many colours: 0x000000, 0x0000FF, 0x00FF00,
\* 0x20C060, 0x808080, 0xFF0000, 0x01402010 (alpha bits).
DeepColors == <<0, 255, 65280, 2146400, 8421504, 16711680, 20979728>>

SeqsUpTo(S, n) == UNION {[1..m -> S] : m \in 0..n}

\* ------------------------------------------------------------ ColorNode
new_rgb(rgb, cnt) ==
    [rgb |-> rgb % 16777216,
     blu |-> (rgb \div 65536) % 256,
     grn |-> (rgb \div 256) % 256,
     red |-> rgb % 256,
     cnt |-> cnt]

new_colors(red, grn, blu, cnt) ==
    [rgb |-> (red % 256) * 65536 + (grn % 256) * 256 + (blu % 256),
     red |-> red,
     grn |-> grn,
     blu |-> blu,
     cnt |-> cnt]

distance2(self, red, grn, blu) ==
    LET dr == self.red - red
        dg == self.grn - grn
        db == self.blu - blu
    IN dr * dr + dg * dg + db * db

\* ------------------------------------------------------- slice::sort_by
\* The stable sort of s by a comparator that orders element i by keys[i],
\* ascending: an element goes after every element its key is not less than.
sort_by(s, keys) ==
    LET insert(acc, i) ==
            LET pos == Cardinality({j \in 1..Len(acc) : ~(keys[i] < keys[acc[j]])})
            IN SubSeq(acc, 1, pos) \o <<i>> \o SubSeq(acc, pos + 1, Len(acc))
        f[n \in 0..Len(s)] == IF n = 0 THEN <<>> ELSE insert(f[n - 1], n)
        order == f[Len(s)]
    IN [i \in 1..Len(s) |-> s[order[i]]]

\* ------------------------------------------------------------- ColorBox
RECURSIVE trim_from(_, _, _)
trim_from(b, colors, i) ==
    IF i >= b.upper THEN b
    ELSE LET color == colors[i + 1]
             r == color.red
             g == color.grn
             bl == color.blu
         IN trim_from([b EXCEPT !.count = @ + color.cnt,
                                !.rmax = IF r > @ THEN r ELSE @,
                                !.rmin = IF r < @ THEN r ELSE @,
                                !.gmax = IF g > @ THEN g ELSE @,
                                !.gmin = IF g < @ THEN g ELSE @,
                                !.bmax = IF bl > @ THEN bl ELSE @,
                                !.bmin = IF bl < @ THEN bl ELSE @],
                       colors, i + 1)

trim(self, colors) ==
    trim_from([self EXCEPT !.rmin = 255, !.rmax = 0,
                           !.gmin = 255, !.gmax = 0,
                           !.bmin = 255, !.bmax = 0,
                           !.count = 0],
              colors, self.lower)

ColorBox_new(lower, upper, level, colors) ==
    trim([lower |-> lower, upper |-> upper, level |-> level, count |-> 0,
          rmin |-> 0, rmax |-> 0, gmin |-> 0, gmax |-> 0, bmin |-> 0, bmax |-> 0],
         colors)

color_count(self) == self.upper - self.lower

get_longest_color_dimension(self) ==
    LET r_length == self.rmax - self.rmin
        g_length == self.gmax - self.gmin
        b_length == self.bmax - self.bmin
    IN IF b_length >= r_length /\ b_length >= g_length THEN "Blue"
       ELSE IF g_length >= r_length /\ g_length >= b_length THEN "Green"
       ELSE "Red"

sort_slice_whole_array(self, dim, colors) ==
    LET keys == [i \in 1..Len(colors) |->
                    IF dim = "Red" THEN colors[i].red
                    ELSE IF dim = "Green" THEN colors[i].grn
                    ELSE colors[i].blu]
    IN sort_by(colors, keys)

\* colors[self.lower..(self.upper + 1)].sort_by(..): the slice holds the code's
\* indices lower..upper, upper included.
sort_slice(self, dim, colors) ==
    LET slice == SubSeq(colors, self.lower + 1, self.upper + 1)
        keys == [i \in 1..Len(slice) |->
                    IF dim = "Red" THEN slice[i].red
                    ELSE IF dim = "Green" THEN slice[i].grn
                    ELSE slice[i].blu]
        sorted == sort_by(slice, keys)
    IN SubSeq(colors, 1, self.lower) \o sorted \o SubSeq(colors, self.upper + 2, Len(colors))

RECURSIVE median_from(_, _, _, _, _)
median_from(self, colors, half, median, n_pixels) ==
    IF median >= self.upper THEN self.lower
    ELSE LET n == n_pixels + colors[median + 1].cnt
         IN IF n >= half THEN median
            ELSE median_from(self, colors, half, median + 1, n)

\* The slice end upper + 1 past the array's length panics.
find_median(self, dim, colors) ==
    IF self.upper + 1 > Len(colors)
    THEN [panicked |-> TRUE, colors |-> colors, med |-> 0]
    ELSE LET sorted == sort_slice(self, dim, colors)
         IN [panicked |-> FALSE,
             colors |-> sorted,
             med |-> median_from(self, sorted, self.count \div 2, self.lower, 0)]

split_box_keeps_upper(self, colors) ==
    IF color_count(self) < 2
    THEN [panicked |-> FALSE, some |-> FALSE, self |-> self, new_box |-> self,
          colors |-> colors]
    ELSE LET dim == get_longest_color_dimension(self)
             fm == find_median(self, dim, colors)
             next_level == self.level + 1
         IN IF fm.panicked
            THEN [panicked |-> TRUE, some |-> FALSE, self |-> self, new_box |-> self,
                  colors |-> colors]
            ELSE [panicked |-> FALSE,
                  some |-> TRUE,
                  new_box |-> ColorBox_new(fm.med + 1, self.upper, next_level, fm.colors),
                  self |-> trim([self EXCEPT !.level = next_level], fm.colors),
                  colors |-> fm.colors]

split_box(self, colors) ==
    IF color_count(self) < 2
    THEN [panicked |-> FALSE, some |-> FALSE, self |-> self, new_box |-> self,
          colors |-> colors]
    ELSE LET dim == get_longest_color_dimension(self)
             fm == find_median(self, dim, colors)
             next_level == self.level + 1
         IN IF fm.panicked
            THEN [panicked |-> TRUE, some |-> FALSE, self |-> self, new_box |-> self,
                  colors |-> colors]
            ELSE [panicked |-> FALSE,
                  some |-> TRUE,
                  new_box |-> ColorBox_new(fm.med + 1, self.upper, next_level, fm.colors),
                  self |-> trim([self EXCEPT !.upper = fm.med, !.level = next_level],
                                fm.colors),
                  colors |-> fm.colors]

RECURSIVE sums_from(_, _, _, _)
sums_from(self, colors, i, acc) ==
    IF i >= self.upper THEN acc
    ELSE LET ci == colors[i + 1]
             cnt == ci.cnt
         IN sums_from(self, colors, i + 1,
                      [r_sum |-> acc.r_sum + cnt * ci.red,
                       g_sum |-> acc.g_sum + cnt * ci.grn,
                       b_sum |-> acc.b_sum + cnt * ci.blu,
                       n |-> acc.n + cnt])

\* (0.5 + sum as f64 / n as f64) as u8 for n > 0: round half up, truncated.
round_u8(sum, n) ==
    LET q == (2 * sum + n) \div (2 * n)
    IN IF q > 255 THEN 255 ELSE q

\* The nodes get_average_color may return: one for n > 0; for n = 0 the three
\* quotients are NaN and each cast yields a value of NaNAsU8.
get_average_color(self, colors) ==
    LET s == sums_from(self, colors, self.lower,
                       [r_sum |-> 0, g_sum |-> 0, b_sum |-> 0, n |-> 0])
    IN IF s.n = 0
       THEN {new_colors(r, g, b, 0) : r \in NaNAsU8, g \in NaNAsU8, b \in NaNAsU8}
       ELSE {new_colors(round_u8(s.r_sum, s.n), round_u8(s.g_sum, s.n),
                        round_u8(s.b_sum, s.n), s.n)}

\* ------------------------------------------------------- ColorHistogram
RECURSIVE count_from(_, _, _, _, _)
count_from(pixels_copy, i, cur_color, inited, h) ==
    IF i > Len(pixels_copy) THEN h
    ELSE IF pixels_copy[i] # cur_color \/ ~inited
         THEN count_from(pixels_copy, i + 1, pixels_copy[i], TRUE,
                         [color_array |-> Append(h.color_array, pixels_copy[i]),
                          count_array |-> Append(h.count_array, 1)])
         ELSE count_from(pixels_copy, i + 1, cur_color, inited,
                         [h EXCEPT !.count_array[Len(h.count_array)] = @ + 1])

new_pixels_unmasked(pixels_orig) ==
    count_from(sort_by(pixels_orig, pixels_orig), 1, 0, FALSE,
               [color_array |-> <<>>, count_array |-> <<>>])

new_pixels(pixels_orig) ==
    LET masked == [i \in 1..Len(pixels_orig) |-> pixels_orig[i] % 16777216]
        pixels_copy == sort_by(masked, masked)
    IN count_from(pixels_copy, 1, 0, FALSE,
                  [color_array |-> <<>>, count_array |-> <<>>])

\* ----------------------------------------------------------------- MMCQ
\* The index (1-based) in color_boxes of the box to split, 0 for None.
\* min_level starts at isize::MAX, above every level a box can have, so the
\* first splittable box always replaces it.
RECURSIVE box_from_any_size(_, _, _, _)
box_from_any_size(color_boxes, i, min_level, box_to_split) ==
    IF i > Len(color_boxes) THEN box_to_split
    ELSE LET b == color_boxes[i]
         IN IF color_count(b) >= 0 /\ (box_to_split = 0 \/ b.level < min_level)
            THEN box_from_any_size(color_boxes, i + 1, b.level, i)
            ELSE box_from_any_size(color_boxes, i + 1, min_level, box_to_split)

RECURSIVE box_from_last_found(_, _, _, _)
box_from_last_found(color_boxes, i, min_level, box_to_split) ==
    IF i > Len(color_boxes) THEN box_to_split
    ELSE LET b == color_boxes[i]
         IN IF color_count(b) >= 2 /\ (box_to_split = 0 \/ b.level <= min_level)
            THEN box_from_last_found(color_boxes, i + 1, b.level, i)
            ELSE box_from_last_found(color_boxes, i + 1, min_level, box_to_split)

RECURSIVE box_from(_, _, _, _)
box_from(color_boxes, i, min_level, box_to_split) ==
    IF i > Len(color_boxes) THEN box_to_split
    ELSE LET b == color_boxes[i]
         IN IF color_count(b) >= 2 /\ (box_to_split = 0 \/ b.level < min_level)
            THEN box_from(color_boxes, i + 1, b.level, i)
            ELSE box_from(color_boxes, i + 1, min_level, box_to_split)

find_box_to_split(color_boxes) == box_from(color_boxes, 1, 0, 0)

\* The palettes average_colors may return (one choice per NaN cast).
RECURSIVE avg_from(_, _, _)
avg_from(color_boxes, colors, i) ==
    IF i > Len(color_boxes) THEN {<<>>}
    ELSE {<<a>> \o rest : a \in get_average_color(color_boxes[i], colors),
                          rest \in avg_from(color_boxes, colors, i + 1)}

average_colors(color_boxes, colors) == avg_from(color_boxes, colors, 1)

\* The index (0-based, as in the code) of the closest palette entry.
RECURSIVE closest_from(_, _, _, _, _, _, _)
closest_from(quant_colors, red, grn, blu, i, min_idx, min_distance) ==
    IF i >= Len(quant_colors) THEN min_idx
    ELSE LET d2 == distance2(quant_colors[i + 1], red, grn, blu)
         IN IF d2 < min_distance
            THEN closest_from(quant_colors, red, grn, blu, i + 1, i, d2)
            ELSE closest_from(quant_colors, red, grn, blu, i + 1, min_idx, min_distance)

find_closest_color_index(quant_colors, rgb) ==
    LET red == (rgb \div 65536) % 256
        grn == (rgb \div 256) % 256
        blu == rgb % 256
    IN closest_from(quant_colors, red, grn, blu, 0, 0, 2147483647)

\* self.quant_colors[idx] panics when idx is not an index of the palette.
find_closest_color(quant_colors, rgb) ==
    LET idx == find_closest_color_index(quant_colors, rgb)
    IN IF idx < Len(quant_colors)
       THEN [panicked |-> FALSE, color |-> quant_colors[idx + 1]]
       ELSE [panicked |-> TRUE, color |-> new_rgb(0, 0)]

quantize_image_unwritten(quant_colors, orig_pixels) ==
    [panicked |-> \E i \in 1..Len(orig_pixels) :
                     find_closest_color(quant_colors, orig_pixels[i]).panicked,
     quant_pixels |-> orig_pixels]

quantize_image(quant_colors, orig_pixels) ==
    LET found == [i \in 1..Len(orig_pixels) |->
                      find_closest_color(quant_colors, orig_pixels[i])]
    IN [panicked |-> \E i \in 1..Len(orig_pixels) : found[i].panicked,
        quant_pixels |-> [i \in 1..Len(orig_pixels) |-> found[i].color.rgb]]

sort_palette_ascending(cols) ==
    sort_by(cols, [i \in 1..Len(cols) |-> cols[i].cnt])

\* m.quant_colors.sort_by(|a, b| b.cnt.cmp(&a.cnt)): by cnt, descending.
sort_palette(cols) ==
    sort_by(cols, [i \in 1..Len(cols) |-> 0 - cols[i].cnt])

loop_continues_inclusive(kk, kmax, d) == kk <= kmax /\ ~d

\* while k < k_max && !done
loop_continues(kk, kmax, d) == kk < kmax /\ ~d

root_box_whole_array(cnum, nodes) == ColorBox_new(0, cnum, 0, nodes)

\* ColorBox::new(0, cnum - 1, 0, &mut self.image_colors)
root_box(cnum, nodes) == ColorBox_new(0, cnum - 1, 0, nodes)

\* slice::from_raw_parts::<u32>(transmute(&pixels[0]), pixels.len() / 4): the
\* buffer read as pixels.len() / 4 native-endian u32 values, little- or
\* big-endian as the platform is; bytes past the last whole group of four
\* are not read.
reinterpret_u32(b, little) ==
    [i \in 1..(Len(b) \div 4) |->
        LET b0 == b[4 * i - 3]
            b1 == b[4 * i - 2]
            b2 == b[4 * i - 1]
            b3 == b[4 * i]
        IN IF little
           THEN b0 + 256 * b1 + 65536 * b2 + 16777216 * b3
           ELSE b3 + 256 * b2 + 65536 * b1 + 16777216 * b0]

nodes_of(color_hist) ==
    [i \in 1..Len(color_hist.color_array) |->
        new_rgb(color_hist.color_array[i], color_hist.count_array[i])]

\* ---------------------------------------------------------------- state
\* entry and bytes are the entry point called and its byte buffer; iters
\* counts the iterations of the split loop.
VARIABLES pc, pixels, k_max, image_colors, color_set, k, done, r_cols,
          quant_colors, orig_pixels, quant_pixels, entry, bytes, iters

vars == <<pc, pixels, k_max, image_colors, color_set, k, done, r_cols,
          quant_colors, orig_pixels, quant_pixels, entry, bytes, iters>>

Init ==
    /\ pc = "idle"
    /\ pixels = <<>>
    /\ k_max = 0
    /\ image_colors = <<>>
    /\ color_set = <<>>
    /\ k = 0
    /\ done = FALSE
    /\ r_cols = <<>>
    /\ quant_colors = <<>>
    /\ orig_pixels = <<>>
    /\ quant_pixels = <<>>
    /\ entry = "none"
    /\ bytes = <<>>
    /\ iters = 0

\* from_pixels_u32_rgba up to the split loop of find_representative_colors:
\* the histogram, the node array, and either the whole build (no more than
\* k_max colours) or the root box.
from_pixels_u32_rgba(p, kmax) ==
    /\ pc = "idle"
    /\ pixels' = p
    /\ k_max' = kmax
    /\ LET color_hist == new_pixels(p)
           cnum == Len(color_hist.color_array)
           nodes == nodes_of(color_hist)
       IN /\ image_colors' = nodes
          /\ IF cnum <= kmax
             THEN /\ r_cols' = nodes
                  /\ quant_colors' = sort_palette(nodes)
                  /\ pc' = "built"
                  /\ UNCHANGED <<color_set, k, done>>
             ELSE /\ color_set' = <<root_box(cnum, nodes)>>
                  /\ k' = 1
                  /\ done' = FALSE
                  /\ pc' = "loop"
                  /\ UNCHANGED <<r_cols, quant_colors>>
    /\ iters' = 0
    /\ UNCHANGED <<orig_pixels, quant_pixels>>

\* from_pixels_u8_rgba: &pixels[0] panics on an empty buffer; otherwise the
\* buffer goes to from_pixels_u32_rgba as u32 values.
from_pixels_u8_rgba(b, kmax, little) ==
    /\ pc = "idle"
    /\ entry' = "u8"
    /\ bytes' = b
    /\ IF Len(b) = 0
       THEN /\ pc' = "u8_panicked"
            /\ k_max' = kmax
            /\ UNCHANGED <<pixels, image_colors, color_set, k, done, r_cols,
                           quant_colors, orig_pixels, quant_pixels, iters>>
       ELSE from_pixels_u32_rgba(reinterpret_u32(b, little), kmax)

\* One iteration of `while k < k_max && !done`.
split_step ==
    /\ pc = "loop"
    /\ loop_continues(k, k_max, done)
    /\ LET idx == find_box_to_split(color_set)
       IN IF idx = 0
          THEN /\ done' = TRUE
               /\ UNCHANGED <<pc, image_colors, color_set, k>>
          ELSE LET res == split_box(color_set[idx], image_colors)
               IN IF res.panicked
                  THEN /\ pc' = "split_panicked"
                       /\ UNCHANGED <<image_colors, color_set, k, done>>
                  ELSE /\ image_colors' = res.colors
                       /\ color_set' = IF res.some
                                       THEN Append([color_set EXCEPT ![idx] = res.self],
                                                   res.new_box)
                                       ELSE [color_set EXCEPT ![idx] = res.self]
                       /\ k' = IF res.some THEN k + 1 ELSE k
                       /\ UNCHANGED <<pc, done>>
    /\ iters' = iters + 1
    /\ UNCHANGED <<pixels, k_max, r_cols, quant_colors, orig_pixels, quant_pixels,
                   entry, bytes>>

\* The loop's exit: average_colors, then the sort of from_pixels_u32_rgba.
finish_build ==
    /\ pc = "loop"
    /\ ~loop_continues(k, k_max, done)
    /\ \E avg \in average_colors(color_set, image_colors) :
          /\ r_cols' = avg
          /\ quant_colors' = sort_palette(avg)
    /\ pc' = "built"
    /\ UNCHANGED <<pixels, k_max, image_colors, color_set, k, done,
                   orig_pixels, quant_pixels, entry, bytes, iters>>

\* The constructor returns the object: its arguments and locals (pixels,
\* k_max, color_set, k, done, r_cols, the byte buffer) are gone, the fields
\* image_colors and quant_colors stay.
return_mmcq ==
    /\ pc = "built"
    /\ pc' = "ready"
    /\ pixels' = <<>>
    /\ k_max' = 0
    /\ color_set' = <<>>
    /\ k' = 0
    /\ done' = FALSE
    /\ r_cols' = <<>>
    /\ entry' = "none"
    /\ bytes' = <<>>
    /\ iters' = 0
    /\ UNCHANGED <<image_colors, quant_colors, orig_pixels, quant_pixels>>

\* quantize_image on a caller's pixel sequence.
quantize(orig) ==
    /\ pc = "ready"
    /\ orig_pixels' = orig
    /\ LET res == quantize_image(quant_colors, orig)
       IN IF res.panicked
          THEN /\ pc' = "panicked"
               /\ UNCHANGED quant_pixels
          ELSE /\ pc' = "quantized"
               /\ quant_pixels' = res.quant_pixels
    /\ UNCHANGED <<pixels, k_max, image_colors, color_set, k, done, r_cols,
                   quant_colors, entry, bytes, iters>>

\* quantize_image on the sequence the previous call returned.
quantize_again ==
    /\ pc = "quantized"
    /\ orig_pixels' = quant_pixels
    /\ LET res == quantize_image(quant_colors, quant_pixels)
       IN IF res.panicked
          THEN /\ pc' = "panicked"
               /\ UNCHANGED quant_pixels
          ELSE /\ pc' = "requantized"
               /\ quant_pixels' = res.quant_pixels
    /\ UNCHANGED <<pixels, k_max, image_colors, color_set, k, done, r_cols,
                   quant_colors, entry, bytes, iters>>

\* A caller builds one object from any pixel buffer and any k_max.
build ==
    /\ pc = "idle"
    /\ entry' = "u32"
    /\ bytes' = <<>>
    /\ \E p \in SeqsUpTo(Colors, MaxPixels), kmax \in 0..MaxK :
          from_pixels_u32_rgba(p, kmax)

\* A caller builds one object from any byte buffer and any k_max.
build_u8 ==
    /\ pc = "idle"
    /\ \E b \in SeqsUpTo(ByteValues, MaxBytes), kmax \in 0..MaxK,
          little \in BOOLEAN :
          from_pixels_u8_rgba(b, kmax, little)

\* A caller quantizes any pixel sequence with the object.
remap ==
    /\ pc = "ready"
    /\ \E orig \in SeqsUpTo(QuantColors, MaxQuantLen) : quantize(orig)

Next ==
    \/ build
    \/ build_u8
    \/ split_step
    \/ finish_build
    \/ return_mmcq
    \/ remap
    \/ quantize_again

Spec == Init /\ [][Next]_vars

\* The pixels of an image in which colour DeepColors[i] occurs cnts[i] times.
RECURSIVE pixels_with(_, _)
pixels_with(cnts, i) ==
    IF i > Len(DeepColors) THEN <<>>
    ELSE [j \in 1..cnts[i] |-> DeepColors[i]] \o pixels_with(cnts, i + 1)

\* A caller builds one object from an image of seven colours, each on one to
\* MaxDeepCnt pixels.
build_deep ==
    /\ pc = "idle"
    /\ entry' = "u32"
    /\ bytes' = <<>>
    /\ \E cnts \in [1..Len(DeepColors) -> 1..MaxDeepCnt], kmax \in 0..MaxDeepK :
          from_pixels_u32_rgba(pixels_with(cnts, 1), kmax)

\* The split loop on images of many colours.
NextDeep ==
    \/ build_deep
    \/ split_step

SpecDeep == Init /\ [][NextDeep]_vars

\* ------------------------------------------------------- claim helpers
RECURSIVE SumCnt(_)
SumCnt(nodes) == IF nodes = <<>> THEN 0 ELSE Head(nodes).cnt + SumCnt(Tail(nodes))

\* The distinct alpha-masked colours of a pixel sequence and their pixel counts.
DistinctColors(p) == {p[i] % 16777216 : i \in 1..Len(p)}
PixelCount(p, c) == Cardinality({i \in 1..Len(p) : p[i] % 16777216 = c})

Covered(i) == \E j \in 1..Len(color_set) :
                  color_set[j].lower <= i /\ i < color_set[j].upper

\* The build went through the boxes (more distinct colours than k_max).
Boxed == color_set # <<>>

\* C1: with more distinct colours than K >= 1, from the root box on and after
\* every split, every node index 0..cnum-1 lies in [lower, upper) of some box,
\* and the cnt values of the returned palette sum to the number of pixels.
C1_BoxesCoverAllNodes ==
    /\ (pc = "loop" /\ k_max >= 1) =>
           \A i \in 0..(Len(image_colors) - 1) : Covered(i)
    /\ (pc = "built" /\ Boxed /\ k_max >= 1) =>
           SumCnt(quant_colors) = Len(pixels)

\* C2: for K >= 1 the palette from_pixels_u32_rgba returns has at most K entries.
C2_AtMostK ==
    (pc = "built" /\ k_max >= 1) => Len(quant_colors) <= k_max

\* A build through the boxes that ended with exactly K = 2 boxes.
C2_Witness ==
    /\ pc = "built" /\ Boxed
    /\ k_max = 2 /\ Len(image_colors) > 2 /\ Len(quant_colors) = 2

\* A colour's channels as find_closest_color_index decodes a packed value:
\* red = bits 16-23, green = bits 8-15, blue = bits 0-7.
Dist2OfPacked(a, b) ==
    LET dr == ((a \div 65536) % 256) - ((b \div 65536) % 256)
        dg == ((a \div 256) % 256) - ((b \div 256) % 256)
        db == (a % 256) - (b % 256)
    IN dr * dr + dg * dg + db * db

Quantized == pc \in {"quantized", "requantized"}

\* C3: with a non-empty palette, the value quantize_image writes for pixel p is
\* the rgb of a palette entry at minimal squared distance from p among all
\* entries, p and the entries' rgb being decoded the same way.
C3_ClosestByRgb ==
    (Quantized /\ quant_colors # <<>>) =>
        \A i \in 1..Len(orig_pixels) :
            \E j \in 1..Len(quant_colors) :
                /\ quant_pixels[i] = quant_colors[j].rgb
                /\ \A m \in 1..Len(quant_colors) :
                       Dist2OfPacked(quant_colors[j].rgb, orig_pixels[i])
                           <= Dist2OfPacked(quant_colors[m].rgb, orig_pixels[i])

IsSortedByCntDescending(cols) ==
    \A i \in 1..Len(cols) : \A j \in i..Len(cols) : cols[i].cnt >= cols[j].cnt

\* C4: with no more distinct alpha-masked colours than K, the palette holds
\* exactly one entry per distinct colour, its rgb that colour and its cnt the
\* number of pixels of that colour, ordered by cnt descending.
C4_FewColorsExact ==
    (pc = "built" /\ Cardinality(DistinctColors(pixels)) <= k_max) =>
        /\ ~Boxed
        /\ Len(quant_colors) = Cardinality(DistinctColors(pixels))
        /\ \A c \in DistinctColors(pixels) :
               \E i \in 1..Len(quant_colors) :
                   /\ quant_colors[i].rgb = c
                   /\ quant_colors[i].cnt = PixelCount(pixels, c)
        /\ IsSortedByCntDescending(quant_colors)

\* Three distinct colours with different counts, one pixel carrying alpha bits,
\* and K large enough to keep them all.
C4_Witness ==
    /\ pc = "built"
    /\ Cardinality(DistinctColors(pixels)) = 3 /\ k_max = 3
    /\ Len(pixels) = 4
    /\ \E i \in 1..Len(pixels) : pixels[i] >= 16777216
    /\ Len(quant_colors) = 3 /\ quant_colors[1].cnt = 2

EntriesWithCnt(cols, c) == SelectSeq(cols, LAMBDA e : e.cnt = c)

\* sorted is cols rearranged by non-increasing cnt, the entries of each cnt
\* being the same and in the same order as in cols.
IsStableSortOf(sorted, cols) ==
    /\ Len(sorted) = Len(cols)
    /\ IsSortedByCntDescending(sorted)
    /\ \A c \in {cols[i].cnt : i \in 1..Len(cols)}
                \cup {sorted[i].cnt : i \in 1..Len(sorted)} :
           EntriesWithCnt(sorted, c) = EntriesWithCnt(cols, c)

\* C5: the palette is sorted by cnt in non-increasing order, entries of equal
\* cnt in the order they had at construction (histogram or box-set order).
C5_SortedStable ==
    /\ pc = "built" => IsStableSortOf(quant_colors, r_cols)
    /\ pc \in {"ready", "quantized", "requantized", "panicked"} =>
           IsSortedByCntDescending(quant_colors)

\* The sort moved an entry, and two different entries of equal cnt are there
\* to keep in order.
C5_Witness ==
    /\ pc = "built"
    /\ quant_colors # r_cols
    /\ \E i \in 1..Len(r_cols) : \E j \in 1..Len(r_cols) :
          i < j /\ r_cols[i].cnt = r_cols[j].cnt /\ r_cols[i] # r_cols[j]

InPalette(v) == \E j \in 1..Len(quant_colors) : v = quant_colors[j].rgb

\* C6 as stated: for any built palette and any pixel sequence quantize_image
\* completes and returns a sequence of the same length, every element the rgb
\* of some palette entry.
C6_AnyPalette ==
    (Quantized \/ pc = "panicked") =>
        /\ pc # "panicked"
        /\ Len(quant_pixels) = Len(orig_pixels)
        /\ \A i \in 1..Len(quant_pixels) : InPalette(quant_pixels[i])

\* C6 amended: the same when the palette is non-empty or the pixel sequence is
\* empty; with an empty palette and a non-empty sequence the call panics.
C6_NonEmptyPalette ==
    /\ Quantized =>
          /\ Len(quant_pixels) = Len(orig_pixels)
          /\ \A i \in 1..Len(quant_pixels) : InPalette(quant_pixels[i])
          /\ quant_colors # <<>> \/ orig_pixels = <<>>
    /\ pc = "panicked" => (quant_colors = <<>> /\ orig_pixels # <<>>)

\* Two pixels quantized to two different entries of a palette of two or more.
C6_Witness ==
    /\ pc = "quantized"
    /\ Len(quant_colors) >= 2
    /\ Len(orig_pixels) = 2 /\ quant_pixels[1] # quant_pixels[2]

\* C7: quantize_image applied to its own output returns it unchanged.
C7_Idempotent ==
    pc = "requantized" => quant_pixels = orig_pixels

\* C8: whenever K >= 1, after every split step and when average_colors runs,
\* every box of the box set holds a node (upper > lower) and has count > 0,
\* and no palette entry has cnt = 0.
C8_NoEmptyBox ==
    /\ (pc \in {"loop", "built"} /\ k_max >= 1) =>
           \A j \in 1..Len(color_set) :
               color_set[j].upper > color_set[j].lower /\ color_set[j].count > 0
    /\ (pc = "built" /\ k_max >= 1) =>
           \A j \in 1..Len(quant_colors) : quant_colors[j].cnt # 0

\* C9: pixels {0xFF0000, 0xFF0000, 0x00FF00, 0x0000FF} with K = 2 give two
\* entries: (255, 0, 0) with cnt 2, then the average of green and blue,
\* (0, 127 or 128, 127 or 128), with cnt 2.
C9_RedGreenBlueScenario ==
    (pc = "built" /\ pixels = <<16711680, 16711680, 65280, 255>> /\ k_max = 2) =>
        /\ Len(quant_colors) = 2
        /\ quant_colors[1].cnt = 2
        /\ quant_colors[1].red = 255
        /\ quant_colors[1].grn = 0
        /\ quant_colors[1].blu = 0
        /\ quant_colors[2].cnt = 2
        /\ quant_colors[2].red = 0
        /\ quant_colors[2].grn \in {127, 128}
        /\ quant_colors[2].blu \in {127, 128}

\* C10: with K = 0 the build returns an empty palette, whatever the pixels.
C10_ZeroKEmptyPalette ==
    (pc = "built" /\ k_max = 0) => quant_colors = <<>>

\* C11: for empty pixel input and any K, the build through from_pixels_u8_rgba
\* or from_pixels_u32_rgba completes and yields an empty palette, and
\* quantize_image of an empty sequence yields an empty sequence.
C11_EmptyInput ==
    /\ (entry = "u32" /\ pixels = <<>>) => (pc = "built" /\ quant_colors = <<>>)
    /\ (entry = "u8" /\ bytes = <<>>) => (pc = "built" /\ quant_colors = <<>>)
    /\ (pc \in {"quantized", "requantized", "panicked"} /\ orig_pixels = <<>>) =>
           (pc # "panicked" /\ quant_pixels = <<>>)

NodeEncoded(node) == node.rgb = node.red * 65536 + node.grn * 256 + node.blu

\* C12: every ColorNode of the node array and of the palette, made by new_rgb
\* or by new_colors, satisfies rgb = (red << 16) | (grn << 8) | blu.
C12_RgbEncodesChannels ==
    /\ \A i \in 1..Len(image_colors) : NodeEncoded(image_colors[i])
    /\ \A i \in 1..Len(quant_colors) : NodeEncoded(quant_colors[i])

\* C13: from_pixels_u8_rgba with a buffer whose length is not a multiple of 4
\* ends in an error before any pixel is decoded; no palette is built from it.
C13_RaggedBufferRejected ==
    (entry = "u8" /\ Len(bytes) % 4 # 0) =>
        (pc = "u8_panicked" /\ pixels = <<>> /\ image_colors = <<>>)

\* C14: the split loop terminates: every iteration either adds one box to the
\* box set (k grows by one) or sets done, so the loop runs at most K - 1
\* iterations plus one.
C14_LoopBounded ==
    pc = "loop" =>
        /\ k = Len(color_set)
        /\ iters = (k - 1) + (IF done THEN 1 ELSE 0)
        /\ iters <= (IF k_max >= 1 THEN k_max ELSE 0)

\* The loop ended by done after three splits, short of k_max boxes.
C14_Witness ==
    pc = "loop" /\ done /\ iters = 4 /\ k < k_max

LoopExit == pc = "loop" /\ ~loop_continues(k, k_max, done)

NoSplittableBox == \A j \in 1..Len(color_set) : color_count(color_set[j]) < 2

\* One iteration of the loop that split a box: one box more, every box of
\* before still there, at its place and from the same lower index.
SplitAddsOneBox ==
    /\ Len(color_set') = Len(color_set) + 1
    /\ \A j \in 1..Len(color_set) :
           /\ color_set'[j].lower = color_set[j].lower
           /\ j # find_box_to_split(color_set) => color_set'[j] = color_set[j]

\* C15: with more distinct colours than K >= 1, each split adds exactly one
\* box and no box is ever removed, and the build stops only with K boxes or
\* with no box of two or more nodes: a palette of fewer than K entries
\* implies that every final box has color_count < 2.
C15_StopsOnlyWhenDone ==
    /\ [][(pc = "loop" /\ pc' = "loop" /\ k_max >= 1) =>
             IF done' = done THEN SplitAddsOneBox ELSE color_set' = color_set]_vars
    /\ []((LoopExit /\ k_max >= 1) =>
             /\ Len(color_set) = k_max \/ NoSplittableBox
             /\ \A palette \in average_colors(color_set, image_colors) :
                    Len(palette) < k_max => NoSplittableBox)

\* The loop stopped with four boxes, fewer than K, none of them splittable.
C15_Witness ==
    LoopExit /\ k_max >= 1 /\ Len(color_set) = 4 /\ Len(color_set) < k_max

\* The boxes whose range [lower, upper) holds node index i.
BoxesOf(i) == {j \in 1..Len(color_set) :
                  color_set[j].lower <= i /\ i < color_set[j].upper}

\* C16: from the root box on and after every split step, the ranges
\* [lower, upper) of any two distinct boxes of the box set are disjoint: no
\* node index belongs to two boxes.
C16_BoxesDisjoint ==
    \A i \in 0..(Len(image_colors) - 1) : Cardinality(BoxesOf(i)) <= 1

\* Two splits made three boxes, each holding at least one node.
C16_Witness ==
    /\ pc = "loop" /\ Len(color_set) = 3
    /\ \A j \in 1..3 : color_count(color_set[j]) >= 1

\* The nodes now stored at the indices [lower, upper) of box b.
NodesIn(b) == SubSeq(image_colors, b.lower + 1, b.upper)

MinOf(S) == CHOOSE m \in S : \A x \in S : m <= x
MaxOf(S) == CHOOSE m \in S : \A x \in S : m >= x

BoundsMatch(b) ==
    LET ns == NodesIn(b)
        reds == {ns[i].red : i \in 1..Len(ns)}
        grns == {ns[i].grn : i \in 1..Len(ns)}
        blus == {ns[i].blu : i \in 1..Len(ns)}
    IN /\ b.rmin = MinOf(reds) /\ b.rmax = MaxOf(reds)
       /\ b.gmin = MinOf(grns) /\ b.gmax = MaxOf(grns)
       /\ b.bmin = MinOf(blus) /\ b.bmax = MaxOf(blus)

\* C17: from the root box on and after every completed split step, every box
\* of the box set has count equal to the sum of cnt over the nodes now at its
\* indices [lower, upper), and every non-empty box has rmin/rmax, gmin/gmax,
\* bmin/bmax equal to the minimum and maximum of red, grn, blu over those
\* nodes: sorting while one box is split invalidates no other box.
C17_BoxesTrimmed ==
    \A j \in 1..Len(color_set) :
        LET b == color_set[j]
        IN /\ b.count = SumCnt(NodesIn(b))
           /\ color_count(b) >= 1 => BoundsMatch(b)

\* Three boxes after two splits, one of them still splittable, and the sorts
\* have moved nodes out of the order new_pixels left them in.
C17_Witness ==
    /\ pc = "loop" /\ Len(color_set) = 3
    /\ \E j \in 1..3 : color_count(color_set[j]) >= 2
    /\ \E i \in 1..(Len(image_colors) - 1) :
           image_colors[i].rgb > image_colors[i + 1].rgb

\* C18: find_median sorts exactly the nodes at indices [lower, upper) of the
\* box being split: across a split step every node at an index outside that
\* range, index upper included, stays at its position.
C18_SortWithinBox ==
    [][(pc = "loop" /\ loop_continues(k, k_max, done)
           /\ find_box_to_split(color_set) # 0) =>
          LET b == color_set[find_box_to_split(color_set)]
          IN \A i \in 0..(Len(image_colors) - 1) :
                 (i < b.lower \/ i >= b.upper) =>
                     image_colors'[i + 1] = image_colors[i + 1]]_vars

Splittable(j) == color_count(color_set[j]) >= 2

\* C19: at every split step find_box_to_split returns a box with
\* color_count >= 2 whose level is the least among the boxes with
\* color_count >= 2, the earliest in the box set's order among those of that
\* level; it returns no box exactly when no box has color_count >= 2.
C19_LowestLevelFirstFound ==
    (pc = "loop" /\ loop_continues(k, k_max, done)) =>
        LET idx == find_box_to_split(color_set)
        IN /\ idx = 0 <=> ~\E j \in 1..Len(color_set) : Splittable(j)
           /\ idx # 0 =>
                 /\ idx \in 1..Len(color_set) /\ Splittable(idx)
                 /\ \A j \in 1..Len(color_set) :
                        Splittable(j) =>
                            \/ color_set[idx].level < color_set[j].level
                            \/ color_set[idx].level = color_set[j].level /\ idx <= j

\* A split step facing two splittable boxes of the same level.
C19_Witness ==
    /\ pc = "loop" /\ loop_continues(k, k_max, done)
    /\ \E i, j \in 1..Len(color_set) :
           /\ i < j /\ Splittable(i) /\ Splittable(j)
           /\ color_set[i].level = color_set[j].level

\* C20: in every state of the build every box has lower <= upper and
\* upper + 1 <= the node array's length, and find_median on the box to split
\* returns med with lower <= med < upper: no index or slice of trim,
\* find_median (slice lower..upper+1), split_box or get_average_color is out
\* of bounds, and upper - lower never underflows.
C20_IndicesInBounds ==
    /\ pc # "split_panicked"
    /\ \A j \in 1..Len(color_set) :
           /\ 0 <= color_set[j].lower
           /\ color_set[j].lower <= color_set[j].upper
           /\ color_set[j].upper + 1 <= Len(image_colors)
    /\ (pc = "loop" /\ loop_continues(k, k_max, done)
           /\ find_box_to_split(color_set) # 0) =>
          LET b == color_set[find_box_to_split(color_set)]
              fm == find_median(b, get_longest_color_dimension(b), image_colors)
          IN ~fm.panicked /\ b.lower <= fm.med /\ fm.med < b.upper

\* A split step on a box, not the root box, whose sorted slice ends at the
\* node array's last index.
C20_Witness ==
    /\ pc = "loop" /\ loop_continues(k, k_max, done) /\ Len(color_set) >= 2
    /\ find_box_to_split(color_set) # 0
    /\ color_set[find_box_to_split(color_set)].upper + 1 = Len(image_colors)

====
